---- MODULE Spec2Model ----
(***************************************************************************)
(* The benchmark objective of src/objective.py: Objective.set_data splits  *)
(* a labelled dataset into train / validation / test subsets with two      *)
(* stratified train_test_split calls that share one seeded generator,      *)
(* Objective.evaluate_result scores a fitted model on the stored subsets,  *)
(* Objective.get_one_result fits a baseline pipeline and                    *)
(* Objective.get_objective hands the train subset to the solver.           *)
(*                                                                         *)
(* Samples are identified by their row number 0..n-1: the feature matrix   *)
(* X of a dataset of n samples is the sequence of its row numbers, so a    *)
(* stored X_* array tells which original samples it holds.  Fractions      *)
(* (test_size, scores) are pairs <<numerator, denominator>>.               *)
(***************************************************************************)
EXTENDS Integers, Sequences, FiniteSets, TLC

\* ------------------------------------------------------------------ bounds
\* Seeds 0..MaxSeed are tried beside the declared seed.
MaxSeed == 2

\* ---------------------------------------------------------- small helpers
Range(f) == {f[i] : i \in DOMAIN f}
Max(S) == CHOOSE m \in S : \A x \in S : x <= m
Min(S) == CHOOSE m \in S : \A x \in S : m <= x
MinOf(a, b) == IF a <= b THEN a ELSE b

RECURSIVE SumSeq(_)
SumSeq(s) == IF s = <<>> THEN 0 ELSE s[1] + SumSeq(Tail(s))

RECURSIVE SortedSeq(_)
\* The elements of a finite set of integers in increasing order.
SortedSeq(S) == IF S = {} THEN <<>>
                ELSE LET m == Min(S) IN <<m>> \o SortedSeq(S \ {m})

\* a[idx] for an index array idx (0-based indices into the 1-based sequence a)
Take(a, idx) == [k \in 1..Len(idx) |-> a[idx[k] + 1]]

\* ---------------------------------------------------------------- numpy
\* np.arange(n)
arange(n) == [k \in 1..n |-> k - 1]

\* np.unique(y): the sorted distinct values
unique(y) == SortedSeq(Range(y))

\* np.unique(y, return_inverse=True)[1]: the class number of every sample
y_indices_of(y) ==
  LET classes == unique(y)
  IN [k \in 1..Len(y) |-> (CHOOSE c \in 1..Len(classes) : classes[c] = y[k]) - 1]

\* np.bincount(y_indices)
bincount(y_indices, n_classes) ==
  [c \in 1..n_classes |-> Cardinality({k \in 1..Len(y_indices) : y_indices[k] = c - 1})]

\* The generator: a deterministic state machine whose whole state is derived
\* from the seed; every draw advances the state.
rk_next(s) == (75 * s + 74) % 65537

\* np.random.RandomState(seed)
RandomState(seed) == rk_next(rk_next(seed % 65537))

\* one bounded draw in [0, max]
rk_interval(max, s) == [val |-> (rk_next(s) \div 7) % (max + 1), rng |-> rk_next(s)]

RECURSIVE shuffle(_, _, _)
\* RandomState.shuffle: for i in reversed(range(1, n)): j = draw in [0, i]; swap
shuffle(x, i, s) ==
  IF Len(x) < 2 \/ i < 1 THEN [val |-> x, rng |-> s]
  ELSE LET d == rk_interval(i, s)
           j == d.val
       IN shuffle([x EXCEPT ![i + 1] = x[j + 1], ![j + 1] = x[i + 1]], i - 1, d.rng)

\* RandomState.permutation(x) for an array x (permutation(n) is permutation(arange(n)))
permutation(x, s) == shuffle(x, Len(x) - 1, s)

\* RandomState.choice(a, size, replace=False): a[permutation(len(a))[:size]]
choice(a, size, s) ==
  LET p == permutation(arange(Len(a)), s)
  IN [val |-> [k \in 1..size |-> a[p.val[k] + 1]], rng |-> p.rng]

\* --------------------------------------------------------------- sklearn
\* A failed call: the exception raised, nothing else.
Raise(e) == [err |-> e]

\* test_size as the caller wrote it: a float num/den, or a Python int num.
float(num, den) == [kind |-> "float", num |-> num, den |-> den]
int(num) == [kind |-> "int", num |-> num, den |-> 1]

\* Mutant of validate_params: the interval closed on the right, so that
\* test_size = 1.0 passes the parameter check.
validate_params_closed(test_size) ==
  IF test_size.kind = "float"
  THEN 0 < test_size.num /\ test_size.num <= test_size.den
  ELSE test_size.num >= 1

\* The parameter constraints train_test_split declares for test_size: a real
\* that is not an int in the open interval (0, 1), or an int that is at least 1.
validate_params(test_size) ==
  IF test_size.kind = "float"
  THEN 0 < test_size.num /\ test_size.num < test_size.den
  ELSE test_size.num >= 1

\* Mutant of validate_shuffle_split: n_test rounded down instead of up.
validate_shuffle_split_floor(n_samples, test_size) ==
  IF \/ test_size.kind = "int" /\ (test_size.num >= n_samples \/ test_size.num <= 0)
     \/ test_size.kind = "float" /\ (test_size.num <= 0 \/ test_size.num >= test_size.den)
  THEN Raise("ValueError")
  ELSE LET n_test == IF test_size.kind = "float"
                     THEN (test_size.num * n_samples) \div test_size.den
                     ELSE test_size.num
           n_train == n_samples - n_test
       IN IF n_train = 0 THEN Raise("ValueError")
          ELSE [err |-> "", n_train |-> n_train, n_test |-> n_test]

\* _validate_shuffle_split(n_samples, test_size, train_size=None)
validate_shuffle_split(n_samples, test_size) ==
  IF \/ test_size.kind = "int" /\ (test_size.num >= n_samples \/ test_size.num <= 0)
     \/ test_size.kind = "float" /\ (test_size.num <= 0 \/ test_size.num >= test_size.den)
  THEN Raise("ValueError")
  ELSE LET n_test == IF test_size.kind = "float"
                     THEN (test_size.num * n_samples + test_size.den - 1) \div test_size.den
                     ELSE test_size.num
           n_train == n_samples - n_test
       IN IF n_train = 0 THEN Raise("ValueError")
          ELSE [err |-> "", n_train |-> n_train, n_test |-> n_test]

RECURSIVE approximate_mode_loop(_, _, _, _, _)
\* The loop of _approximate_mode over the distinct remainders, largest first:
\* the classes with that remainder get one more draw each, chosen by the
\* generator when there are more of them than draws left. `below` is the
\* remainder handled last.
approximate_mode_loop(floored, remainder, need_to_add, below, s) ==
  LET values == {v \in Range(remainder) : v < below}
  IN IF need_to_add = 0 \/ values = {} THEN [val |-> floored, rng |-> s]
     ELSE LET value == Max(values)
              inds == SortedSeq({i - 1 : i \in {j \in DOMAIN remainder : remainder[j] = value}})
              add_now == MinOf(Len(inds), need_to_add)
              c == choice(inds, add_now, s)
          IN approximate_mode_loop(
               [i \in DOMAIN floored |-> floored[i] + (IF (i - 1) \in Range(c.val) THEN 1 ELSE 0)],
               remainder, need_to_add - add_now, value, c.rng)

\* Mutant of approximate_mode: the draws are taken class after class, each
\* class emptied before the next is touched (no stratification).
approximate_mode_unstratified(class_counts, n_draws, s) ==
  [val |-> [i \in DOMAIN class_counts |->
              LET before == SumSeq(SubSeq(class_counts, 1, i - 1))
              IN IF n_draws <= before THEN 0
                 ELSE MinOf(class_counts[i], n_draws - before)],
   rng |-> s]

\* _approximate_mode(class_counts, n_draws, rng): class_counts / sum * n_draws,
\* floored, the draws still missing given to the largest remainders. The
\* remainders are kept as numerators over the common denominator sum.
approximate_mode(class_counts, n_draws, s) ==
  LET total == SumSeq(class_counts)
      floored == [i \in DOMAIN class_counts |-> (class_counts[i] * n_draws) \div total]
      remainder == [i \in DOMAIN class_counts |-> (class_counts[i] * n_draws) % total]
  IN approximate_mode_loop(floored, remainder, n_draws - SumSeq(floored), total, s)

RECURSIVE iter_classes_overlap(_, _, _, _, _, _, _, _)
\* Mutant of iter_classes: the test slice starts one sample early, on the last
\* train sample of the class.
iter_classes_overlap(i, class_counts, class_indices, n_i, t_i, train, test, s) ==
  IF i > Len(class_counts) THEN [train |-> train, test |-> test, rng |-> s]
  ELSE LET p == permutation(arange(class_counts[i]), s)
           perm_indices_class_i == Take(class_indices[i], p.val)
       IN iter_classes_overlap(i + 1, class_counts, class_indices, n_i, t_i,
                       train \o SubSeq(perm_indices_class_i, 1, n_i[i]),
                       test \o SubSeq(perm_indices_class_i, n_i[i], n_i[i] + t_i[i] - 1),
                       p.rng)

RECURSIVE iter_classes(_, _, _, _, _, _, _, _)
\* The per-class loop of StratifiedShuffleSplit._iter_indices: class i is
\* permuted, its first n_i[i] samples go to train, the next t_i[i] to test.
iter_classes(i, class_counts, class_indices, n_i, t_i, train, test, s) ==
  IF i > Len(class_counts) THEN [train |-> train, test |-> test, rng |-> s]
  ELSE LET p == permutation(arange(class_counts[i]), s)
           perm_indices_class_i == Take(class_indices[i], p.val)
       IN iter_classes(i + 1, class_counts, class_indices, n_i, t_i,
                       train \o SubSeq(perm_indices_class_i, 1, n_i[i]),
                       test \o SubSeq(perm_indices_class_i, n_i[i] + 1, n_i[i] + t_i[i]),
                       p.rng)

\* The end of _iter_indices, one step per draw on the generator:
\*   test = rng.permutation(test); yield train, test
sss_yield(train, test) ==
  [err |-> "", train |-> train, test |-> test.val, rng |-> test.rng]

\*   train = rng.permutation(train)
sss_permute_test(train, test) == sss_yield(train.val, permutation(test, train.rng))

sss_permute_train(per) == sss_permute_test(permutation(per.train, per.rng), per.test)

\*   the loop over the classes, given the train counts n_i and test counts t_i
sss_assign(class_counts, class_indices, n_i, t_i) ==
  sss_permute_train(iter_classes(1, class_counts, class_indices, n_i, t_i.val,
                                 <<>>, <<>>, t_i.rng))

\*   class_counts_remaining = class_counts - n_i
\*   t_i = _approximate_mode(class_counts_remaining, n_test, rng)
sss_test_counts(class_counts, class_indices, n_test, n_i) ==
  sss_assign(class_counts, class_indices, n_i.val,
             approximate_mode([c \in DOMAIN class_counts |-> class_counts[c] - n_i.val[c]],
                              n_test, n_i.rng))

\* StratifiedShuffleSplit(test_size=n_test, train_size=n_train,
\* random_state=rng).split(X, y), first split: the train and test index arrays.
StratifiedShuffleSplit(y, n_train, n_test, s) ==
  LET n_classes == Len(unique(y))
      y_indices == y_indices_of(y)
      class_counts == bincount(y_indices, n_classes)
  IN IF Min(Range(class_counts)) < 2 THEN Raise("ValueError")
     ELSE IF n_train < n_classes THEN Raise("ValueError")
     ELSE IF n_test < n_classes THEN Raise("ValueError")
     ELSE sss_test_counts(
            class_counts,
            [c \in 1..n_classes |->
               SelectSeq(arange(Len(y)), LAMBDA k : y_indices[k + 1] = c - 1)],
            n_test,
            approximate_mode(class_counts, n_train, s))

\* The end of train_test_split: every array indexed by train and by test.
tts_index(X, y, cv) ==
  IF cv.err # "" THEN Raise(cv.err)
  ELSE [err |-> "",
        X_train |-> Take(X, cv.train), X_test |-> Take(X, cv.test),
        y_train |-> Take(y, cv.train), y_test |-> Take(y, cv.test),
        rng |-> cv.rng]

tts_split(X, y, s, sizes) ==
  IF sizes.err # "" THEN Raise(sizes.err)
  ELSE tts_index(X, y, StratifiedShuffleSplit(y, sizes.n_train, sizes.n_test, s))

\* train_test_split(X, y, test_size=test_size, random_state=rng, stratify=y)
train_test_split(X, y, test_size, s) ==
  IF ~validate_params(test_size) THEN Raise("InvalidParameterError")
  ELSE tts_split(X, y, s, validate_shuffle_split(Len(X), test_size))

\* ------------------------------------------------------------- fractions
\* A scalar metric is a fraction <<numerator, denominator>>; NaN is 0/0.
NaN == <<0, 0>>

RECURSIVE GCD(_, _)
GCD(a, b) == IF b = 0 THEN a ELSE GCD(b, a % b)

RatNorm(a) == LET g == GCD(a[1], a[2]) IN IF g = 0 THEN a ELSE <<a[1] \div g, a[2] \div g>>
RatAdd(a, b) == <<a[1] * b[2] + b[1] * a[2], a[2] * b[2]>>
RatEq(a, b) == a[1] * b[2] = b[1] * a[2]

RECURSIVE RatSum(_)
RatSum(s) == IF s = <<>> THEN <<0, 1>> ELSE RatAdd(s[1], RatSum(Tail(s)))

\* np.mean of a sequence of fractions
RatMean(s) == LET t == RatSum(s) IN RatNorm(<<t[1], t[2] * Len(s)>>)

\* ------------------------------------------------------------ the model
\* A fitted pipeline (preprocessor, classifier) as the evaluator sees it:
\* classes are the classifier's classes_, one probability column per class.
\*   "dummy": DummyClassifier (strategy prior) fitted on labels with the
\*            class counts `weights`: predicts the most frequent class, gives
\*            the class priors as probabilities;
\*   "rule":  a classifier that reads the row: predicts class
\*            (row div step) mod n_classes with probability 3/(n_classes+2),
\*            the other classes get 1/(n_classes+2) each;
\*   "hard":  as "rule", without predict_proba.
argmax(w) == Min({i \in DOMAIN w : \A j \in DOMAIN w : w[j] <= w[i]})

predict_class(model, x) ==
  IF model.kind = "dummy" THEN argmax(model.weights)
  ELSE ((x \div model.step) % Len(model.classes)) + 1

\* model.predict(X)
predict(model, X) == [k \in 1..Len(X) |-> model.classes[predict_class(model, X[k])]]

\* model.predict_proba(X): per row the numerators of the class probabilities
\* (all rows of a model share one denominator)
predict_proba(model, X) ==
  [k \in 1..Len(X) |->
     IF model.kind = "dummy" THEN model.weights
     ELSE [c \in 1..Len(model.classes) |->
             IF c = predict_class(model, X[k]) THEN 3 ELSE 1]]

\* model.score(X, y): accuracy
score(model, X, y) ==
  LET p == predict(model, X)
  IN <<Cardinality({k \in 1..Len(X) : p[k] = y[k]}), Len(X)>>

\* sklearn.metrics.balanced_accuracy_score: the mean recall of the classes of y_true
BAS(y_true, y_pred) ==
  LET classes == unique(y_true)
  IN RatMean([c \in 1..Len(classes) |->
       <<Cardinality({k \in 1..Len(y_true) : y_true[k] = classes[c] /\ y_pred[k] = classes[c]}),
         Cardinality({k \in 1..Len(y_true) : y_true[k] = classes[c]})>>])

\* The area under the ROC curve of scores y_score for the samples flagged
\* positive: the share of (positive, negative) pairs the scores order
\* correctly, ties counting half.
binary_auc(positive, y_score) ==
  LET pos == {k \in DOMAIN positive : positive[k]}
      neg == {k \in DOMAIN positive : ~positive[k]}
      gt == Cardinality({pr \in pos \X neg : y_score[pr[1]] > y_score[pr[2]]})
      eq == Cardinality({pr \in pos \X neg : y_score[pr[1]] = y_score[pr[2]]})
  IN RatNorm(<<2 * gt + eq, 2 * Cardinality(pos) * Cardinality(neg)>>)

\* roc_auc_score(y_true, y_score) on a 1-d y_score. With a single class in
\* y_true the installed scikit-learn either raises ValueError or warns and
\* returns nan (`undefined_auc`).
RAS(y_true, y_score, undefined_auc) ==
  LET labels == unique(y_true)
  IN IF Len(labels) # 2
     THEN IF undefined_auc = "raise" THEN Raise("ValueError")
          ELSE [err |-> "", val |-> NaN]
     ELSE [err |-> "",
           val |-> binary_auc([k \in 1..Len(y_true) |-> y_true[k] = labels[2]], y_score)]

\* roc_auc_score(y_true, y_score, multi_class='ovr'): the macro average of the
\* one-vs-rest areas, column c scoring class c
RAS_ovr(y_true, y_score) ==
  LET classes == unique(y_true)
  IN IF \E k \in DOMAIN y_score : Len(y_score[k]) # Len(classes)
     THEN Raise("ValueError")
     ELSE [err |-> "",
           val |-> RatMean([c \in 1..Len(classes) |->
                      binary_auc([k \in 1..Len(y_true) |-> y_true[k] = classes[c]],
                                 [k \in 1..Len(y_true) |-> y_score[k][c]])])]

\* ------------------------------------------------------------- Objective
\* The body of Objective.set_data up to its assignments, given the fresh
\* generator: the three subsets, or the exception of the split that failed.
\* The generator left by the first split drives the second.
split_result(first, second) ==
  IF second.err # "" THEN Raise(second.err)
  ELSE [err |-> "",
        X_train |-> second.X_train, y_train |-> second.y_train,
        X_val |-> second.X_test, y_val |-> second.y_test,
        X_test |-> first.X_test, y_test |-> first.y_test,
        rng |-> second.rng]

second_split(first, test_size) ==
  IF first.err # "" THEN Raise(first.err)
  ELSE split_result(first,
         train_test_split(first.X_train, first.y_train, test_size, first.rng))

split_data(X, y, rng, test_size) ==
  second_split(train_test_split(X, y, test_size, rng), test_size)

\* ---------------------------------------------------------------- inputs
\* The seed and test_size the class declares in `parameters`.
DeclaredSeed == 42
DeclaredTestSize == float(1, 5)

Seeds == (0..MaxSeed) \cup {DeclaredSeed}

\* test_size values the harness may hand over: fractions inside and outside
\* (0, 1), and Python ints.
TestSizes == {DeclaredTestSize, float(2, 5), float(1, 2),
              float(0, 1), float(1, 1), float(-1, 2), float(3, 2),
              int(0), int(1), int(2), int(20)}

\* The label vectors y of the datasets passed to set_data (X is the row numbers).
Datasets == <<
  <<0, 1, 0, 1, 0, 1, 0, 1, 0, 1>>,          \* 2 balanced classes
  <<0, 0, 0, 1, 0, 0, 0, 0, 1, 0>>,          \* a rare class of 2 samples
  <<0, 1, 2, 0, 1, 2, 0, 1, 2, 0>>,          \* 3 classes
  <<0, 0, 1, 0, 0>>,                         \* a class of 1 sample
  <<0, 0, 0, 1, 1, 1>>,                      \* too small for the second split
  <<0, 1, 2, 2, 1, 0, 1, 2, 0, 0, 2, 1>>,    \* 3 balanced classes
  [k \in 1..100 |-> (k - 1) % 2]             \* 100 samples, 2 balanced classes
>>
DataIds == DOMAIN Datasets
\* The end-to-end scenario's dataset, and the small ones.
ScenarioData == {d \in DataIds : Len(Datasets[d]) = 100}
SmallData == DataIds \ ScenarioData
X_of(d) == arange(Len(Datasets[d]))

\* The preprocessor objects that exist; a reference is the object's number.
PrepIds == {1, 2}
Unfitted == [fitted |-> FALSE, n_samples_seen |-> 0]

\* Fitted models a solver may hand to evaluate_result.
SolverModels == {
  [kind |-> "rule", classes |-> <<0, 1>>, weights |-> <<>>, step |-> 1],
  [kind |-> "rule", classes |-> <<0, 1>>, weights |-> <<>>, step |-> 2],
  [kind |-> "rule", classes |-> <<0, 1, 2>>, weights |-> <<>>, step |-> 1],
  [kind |-> "rule", classes |-> <<0, 1, 2>>, weights |-> <<>>, step |-> 2],
  [kind |-> "hard", classes |-> <<0, 1>>, weights |-> <<>>, step |-> 1],
  [kind |-> "dummy", classes |-> <<0>>, weights |-> <<4>>, step |-> 1] }

\* ----------------------------------------------------------------- state
VARIABLES
  params,          \* per Objective: self.seed, self.test_size (set by the harness)
  attrs,           \* per Objective: the instance attributes set_data assigns
  prep,            \* per preprocessor object: its state
  undefined_auc,   \* what the installed scikit-learn does for a one-class ROC AUC
  np_random,       \* the state of numpy's global generator
  ret,             \* the last call: operation, object, arguments, outcome
  passed           \* per Objective: the arguments of its last successful set_data

vars == <<params, attrs, prep, undefined_auc, np_random, ret, passed>>

Objs == {1, 2}
NoAttrs == [a \in {} |-> 0]
None == <<>>

\* self.__dict__.update(new)
Update(old, new) ==
  [k \in DOMAIN old \cup DOMAIN new |-> IF k \in DOMAIN new THEN new[k] ELSE old[k]]

Call(op, o, args, err, val, calls, branch) ==
  [op |-> op, obj |-> o, args |-> args, err |-> err, val |-> val,
   calls |-> calls, branch |-> branch]

\* The assignments that end Objective.set_data, reached only when both
\* splits returned (r is their outcome).
set_data_store(o, d, p, r) ==
  IF r.err # ""
  THEN /\ ret' = Call("set_data", o, [data |-> d, preprocessor |-> p], r.err, None, <<>>, "")
       /\ UNCHANGED <<params, attrs, prep, undefined_auc, np_random, passed>>
  ELSE /\ attrs' = [attrs EXCEPT ![o] = Update(@,
                      [X_train |-> r.X_train, y_train |-> r.y_train,
                       X_val |-> r.X_val, y_val |-> r.y_val,
                       X_test |-> r.X_test, y_test |-> r.y_test,
                       preprocessor |-> p])]
       /\ passed' = [passed EXCEPT ![o] =
                       [set |-> TRUE, data |-> d, preprocessor |-> p, state |-> prep[p]]]
       /\ ret' = Call("set_data", o, [data |-> d, preprocessor |-> p], "", None, <<>>, "")
       /\ UNCHANGED <<params, prep, undefined_auc, np_random>>

\* Mutant of set_data: no generator is built from the seed, the splits draw
\* from numpy's global generator and leave it advanced.
set_data_global_rng(o, d, p) ==
  LET r == split_data(X_of(d), Datasets[d], np_random, params[o].test_size)
  IN IF r.err # ""
     THEN /\ ret' = Call("set_data", o, [data |-> d, preprocessor |-> p], r.err, None, <<>>, "")
          /\ UNCHANGED <<params, attrs, prep, undefined_auc, np_random, passed>>
     ELSE /\ attrs' = [attrs EXCEPT ![o] = Update(@,
                         [X_train |-> r.X_train, y_train |-> r.y_train,
                          X_val |-> r.X_val, y_val |-> r.y_val,
                          X_test |-> r.X_test, y_test |-> r.y_test,
                          preprocessor |-> p])]
          /\ passed' = [passed EXCEPT ![o] =
                          [set |-> TRUE, data |-> d, preprocessor |-> p, state |-> prep[p]]]
          /\ ret' = Call("set_data", o, [data |-> d, preprocessor |-> p], "", None, <<>>, "")
          /\ np_random' = r.rng
          /\ UNCHANGED <<params, prep, undefined_auc>>

\* Objective.set_data(X, y, preprocessor) with (X, y) dataset d and
\* preprocessor object p
set_data(o, d, p) ==
  set_data_store(o, d, p,
    split_data(X_of(d), Datasets[d], RandomState(params[o].seed), params[o].test_size))

\* Mutant of is_multiclass: the branch taken on the number of probability
\* columns of the model.
is_multiclass_by_columns(self, model) == Len(model.classes) > 2

\* The test of the ROC AUC branch: len(np.unique(self.y_test)) > 2
is_multiclass(self, model) == Len(unique(self.y_test)) > 2

\* Mutant of metrics: value is the test score itself.
metrics_value_is_score(score_train, score_val, score_test, bl_acc, roc_score) ==
  [score_test |-> score_test,
   score_val |-> score_val,
   score_train |-> score_train,
   balanced_accuracy |-> bl_acc,
   roc_auc_score |-> roc_score,
   value |-> score_test]

\* The dictionary evaluate_result returns.
metrics(score_train, score_val, score_test, bl_acc, roc_score) ==
  [score_test |-> score_test,
   score_val |-> score_val,
   score_train |-> score_train,
   balanced_accuracy |-> bl_acc,
   roc_auc_score |-> roc_score,
   value |-> <<score_test[2] - score_test[1], score_test[2]>>]

\* The outcome of Objective.evaluate_result(model) on the instance
\* attributes self: the exception or the metrics, the model's methods called,
\* and the ROC AUC call made.
evaluate(self, model, sklearn) ==
  IF "X_train" \notin DOMAIN self
  THEN [err |-> "AttributeError", val |-> None, calls |-> <<>>, branch |-> ""]
  ELSE
  LET calls == <<"score", "score", "score", "predict", "predict_proba">>
  IN IF model.kind = "hard"
     THEN [err |-> "AttributeError", val |-> None, calls |-> calls, branch |-> ""]
     ELSE
     LET pred == predict_proba(model, self.X_test)
         multi == is_multiclass(self, model)
         branch == IF multi THEN "ovr" ELSE "binary"
     IN IF ~multi /\ Len(model.classes) < 2
        THEN [err |-> "IndexError", val |-> None, calls |-> calls, branch |-> branch]
        ELSE
        LET roc_score == IF multi THEN RAS_ovr(self.y_test, pred)
                         ELSE RAS(self.y_test, [k \in DOMAIN pred |-> pred[k][2]], sklearn)
        IN IF roc_score.err # ""
           THEN [err |-> roc_score.err, val |-> None, calls |-> calls, branch |-> branch]
           ELSE [err |-> "",
                 val |-> metrics(score(model, self.X_train, self.y_train),
                                 score(model, self.X_val, self.y_val),
                                 score(model, self.X_test, self.y_test),
                                 BAS(self.y_test, predict(model, self.X_test)),
                                 roc_score.val),
                 calls |-> calls, branch |-> branch]

\* Mutant of evaluate_return: the model is kept on the object (self.model = model).
evaluate_return_retains(o, model, r) ==
  /\ ret' = Call("evaluate_result", o, [model |-> model], r.err, r.val, r.calls, r.branch)
  /\ attrs' = [attrs EXCEPT ![o] = Update(@, [model |-> model])]
  /\ UNCHANGED <<params, prep, undefined_auc, np_random, passed>>

\* The return (or raise) of evaluate_result: nothing is assigned.
evaluate_return(o, model, r) ==
  /\ ret' = Call("evaluate_result", o, [model |-> model], r.err, r.val, r.calls, r.branch)
  /\ UNCHANGED <<params, attrs, prep, undefined_auc, np_random, passed>>

\* Objective.evaluate_result(model)
evaluate_result(o, model) ==
  evaluate_return(o, model, evaluate(attrs[o], model, undefined_auc))

\* DummyClassifier().fit(X, y)
DummyClassifier_fit(y) ==
  LET classes == unique(y)
  IN [kind |-> "dummy", classes |-> classes,
      weights |-> [c \in 1..Len(classes) |->
                     Cardinality({k \in 1..Len(y) : y[k] = classes[c]})],
      step |-> 1]

\* Objective.get_one_result(): the pipeline is built around the stored
\* preprocessor object itself, and Pipeline.fit fits its steps in place.
get_one_result(o) ==
  IF "preprocessor" \notin DOMAIN attrs[o]
  THEN /\ ret' = Call("get_one_result", o, None, "AttributeError", None, <<>>, "")
       /\ UNCHANGED <<params, attrs, prep, undefined_auc, np_random, passed>>
  ELSE LET self == attrs[o]
       IN /\ prep' = [prep EXCEPT ![self.preprocessor] =
                        [fitted |-> TRUE, n_samples_seen |-> Len(self.X_train)]]
          /\ ret' = Call("get_one_result", o, None, "",
                         [model |-> DummyClassifier_fit(self.y_train)], <<>>, "")
          /\ UNCHANGED <<params, attrs, undefined_auc, np_random, passed>>

\* Objective.get_objective()
get_objective(o) ==
  /\ IF "X_train" \notin DOMAIN attrs[o]
     THEN ret' = Call("get_objective", o, None, "AttributeError", None, <<>>, "")
     ELSE ret' = Call("get_objective", o, None, "",
                      [X_train |-> attrs[o].X_train, y_train |-> attrs[o].y_train,
                       preprocessor |-> attrs[o].preprocessor], <<>>, "")
  /\ UNCHANGED <<params, attrs, prep, undefined_auc, np_random, passed>>

\* The models evaluate_result may receive: a solver's, or the baseline that
\* get_one_result just returned.
ModelsFor(o) ==
  SolverModels \cup
  (IF ret.op = "get_one_result" /\ ret.obj = o /\ ret.err = ""
   THEN {ret.val.model} ELSE {})

NoCall == Call("", 0, None, "", None, <<>>, "")
NotPassed == [set |-> FALSE, data |-> 0, preprocessor |-> 0, state |-> Unfitted]

\* One Objective (number 1), built by the harness with any declared
\* parameter values.
Init ==
  /\ params \in [Objs -> [seed : Seeds, test_size : TestSizes]]
  /\ params[2] = [seed |-> DeclaredSeed, test_size |-> DeclaredTestSize]
  /\ attrs = [o \in Objs |-> NoAttrs]
  /\ prep = [p \in PrepIds |-> Unfitted]
  /\ undefined_auc \in {"raise", "nan"}
  /\ np_random = RandomState(0)
  /\ ret = NoCall
  /\ passed = [o \in Objs |-> NotPassed]

\* Any calls on the Objective with the small datasets.
Next ==
  \E o \in {1} :
    \/ \E d \in SmallData, p \in PrepIds : set_data(o, d, p)
    \/ \E model \in ModelsFor(o) : evaluate_result(o, model)
    \/ get_one_result(o)
    \/ get_objective(o)

Spec == Init /\ [][Next]_vars

\* The partitioning alone, the 100-sample dataset included.
NextScenario ==
  \E o \in {1} :
    \/ \E d \in DataIds : set_data(o, d, 1)
    \/ get_objective(o)

SpecScenario == Init /\ [][NextScenario]_vars

\* Two Objectives, each with its own parameter values, sharing the
\* preprocessor object.
InitDet ==
  /\ params \in [Objs -> [seed : Seeds, test_size : TestSizes]]
  /\ attrs = [o \in Objs |-> NoAttrs]
  /\ prep = [p \in PrepIds |-> Unfitted]
  /\ undefined_auc = "raise"
  /\ np_random = RandomState(0)
  /\ ret = NoCall
  /\ passed = [o \in Objs |-> NotPassed]

DetData == {1, 3}

NextDet ==
  \E o \in Objs :
    \/ \E d \in DetData : set_data(o, d, 1)
    \/ get_one_result(o)
    \/ get_objective(o)

SpecDet == InitDet /\ [][NextDet]_vars

\* ================================================================ claims
\* The six arrays set_data stores.
ArrayNames == {"X_train", "y_train", "X_val", "y_val", "X_test", "y_test"}
AttrNames == ArrayNames \cup {"preprocessor"}
Stored(o) == "X_train" \in DOMAIN attrs[o]
\* The labels handed to the last successful set_data of Objective o.
y_passed(o) == Datasets[passed[o].data]
Count(seq, c) == Cardinality({k \in DOMAIN seq : seq[k] = c})
Abs(x) == IF x < 0 THEN -x ELSE x
\* m = ceil(num * n / den)
IsCeil(m, num, n, den) == m * den >= num * n /\ (m - 1) * den < num * n
Paired(X_s, y_s, y) ==
  Len(X_s) = Len(y_s) /\ \A k \in DOMAIN X_s : y_s[k] = y[X_s[k] + 1]

\* C1: after a successful set_data on n samples the stored train, validation
\* and test subsets hold every sample 0..n-1 exactly once (the three sizes add
\* up to n and the rows cover 0..n-1), and every stored row goes with the
\* label of its own sample.
Thm_C1_Partition ==
  \A o \in Objs : Stored(o) =>
    LET a == attrs[o]
        y == y_passed(o)
    IN /\ Len(a.X_train) + Len(a.X_val) + Len(a.X_test) = Len(y)
       /\ Range(a.X_train) \cup Range(a.X_val) \cup Range(a.X_test) = 0..(Len(y) - 1)
       /\ Paired(a.X_train, a.y_train, y)
       /\ Paired(a.X_val, a.y_val, y)
       /\ Paired(a.X_test, a.y_test, y)

\* C1 witness: a 3-class dataset has been split and stored.
Wit_C1 ==
  /\ Stored(1) /\ ret.op = "set_data" /\ ret.err = ""
  /\ Len(unique(y_passed(1))) = 3
  /\ Len(attrs[1].X_val) = 3

\* C2: two set_data calls with the same dataset, preprocessor, seed and
\* test_size store the same train, validation and test arrays, on two
\* Objectives whatever was called in between, and on one Objective when the
\* call is repeated.
DetAcross ==
  \A o1, o2 \in Objs :
    (/\ Stored(o1) /\ Stored(o2)
     /\ params[o1] = params[o2]
     /\ passed[o1].data = passed[o2].data
     /\ passed[o1].preprocessor = passed[o2].preprocessor)
    => attrs[o1] = attrs[o2]

DetRepeat ==
  \A o \in Objs :
    (/\ Stored(o)
     /\ ret'.op = "set_data" /\ ret'.obj = o /\ ret'.err = ""
     /\ ret'.args.data = passed[o].data)
    => \A f \in ArrayNames : attrs'[o][f] = attrs[o][f]

\* C2: equal (data, preprocessor, seed, test_size) give equal stored subsets,
\* on two Objectives and on a repeated call of one, whatever ran in between.
Thm_C2_Deterministic == []DetAcross /\ [][DetRepeat]_vars

\* C2 witness: both Objectives hold the split of the same inputs, and the
\* baseline was fitted in between.
Wit_C2 ==
  /\ Stored(1) /\ Stored(2)
  /\ params[1] = params[2]
  /\ passed[1].data = passed[2].data
  /\ passed[1].state # passed[2].state

\* C3: with a fraction test_size = num/den in (0, 1) and n samples, the test
\* subset has ceil(test_size * n) samples, the validation subset
\* ceil(test_size * (n - |test|)), the train subset the rest; 100 samples in 2
\* balanced classes with test_size 0.2 give 20 / 16 / 64 for every seed.
Thm_C3_Sizes ==
  \A o \in Objs : (Stored(o) /\ params[o].test_size.kind = "float") =>
    LET a == attrs[o]
        y == y_passed(o)
        n == Len(y)
        ts == params[o].test_size
    IN /\ IsCeil(Len(a.X_test), ts.num, n, ts.den)
       /\ IsCeil(Len(a.X_val), ts.num, n - Len(a.X_test), ts.den)
       /\ Len(a.X_train) = n - Len(a.X_test) - Len(a.X_val)
       /\ (/\ n = 100 /\ Count(y, 0) = 50 /\ Count(y, 1) = 50
           /\ ts = float(1, 5))
          => /\ Len(a.X_test) = 20 /\ Len(a.X_val) = 16 /\ Len(a.X_train) = 64

\* C3 witness: the end-to-end scenario, 100 samples, seed 42, test_size 0.2.
Wit_C3 ==
  /\ Stored(1) /\ passed[1].data \in ScenarioData
  /\ params[1] = [seed |-> DeclaredSeed, test_size |-> DeclaredTestSize]
  /\ Len(attrs[1].X_val) = 16

\* C4: in each stored subset S and for each class c, the number of samples
\* of c in S is within 2 of the proportional share |S| * count(c) / n, so the
\* proportion of c in S is within 2 / |S| of its proportion in the dataset.
Thm_C4_Stratified ==
  \A o \in Objs : Stored(o) =>
    LET a == attrs[o]
        y == y_passed(o)
    IN \A c \in Range(y) : \A f \in {"y_train", "y_val", "y_test"} :
         Abs(Count(a[f], c) * Len(y) - Len(a[f]) * Count(y, c)) < 2 * Len(y)

\* C4 witness: the 100-sample dataset split with test_size 0.2, 8 samples of
\* each class in the validation subset and 10 in the test subset.
Wit_C4 ==
  /\ Stored(1) /\ passed[1].data \in ScenarioData
  /\ params[1].test_size = float(1, 5)
  /\ Count(attrs[1].y_val, 0) = 8 /\ Count(attrs[1].y_val, 1) = 8
  /\ Count(attrs[1].y_test, 0) = 10 /\ Count(attrs[1].y_test, 1) = 10

\* C5: evaluate_result takes the one-vs-rest ROC AUC over all probability
\* columns exactly when y_test holds more than 2 distinct labels, and otherwise
\* the binary ROC AUC of probability column 1 alone; the labels of y_test
\* decide, whatever the train labels and the number of columns.
Thm_C5_Branch ==
  (ret.op = "evaluate_result" /\ ret.branch # "") =>
    LET a == attrs[ret.obj]
        model == ret.args.model
        n_labels == Cardinality(Range(a.y_test))
        proba == predict_proba(model, a.X_test)
    IN /\ ret.branch = (IF n_labels > 2 THEN "ovr" ELSE "binary")
       /\ (n_labels = 2 /\ ret.err = "") =>
            ret.val.roc_auc_score =
              binary_auc([k \in DOMAIN a.y_test |-> a.y_test[k] = Max(Range(a.y_test))],
                         [k \in DOMAIN proba |-> proba[k][2]])
       /\ (n_labels > 2 /\ ret.err = "") =>
            ret.val.roc_auc_score = RAS_ovr(a.y_test, proba).val

\* C5 witness: a 3-class test subset scored one-vs-rest.
Wit_C5 ==
  /\ ret.op = "evaluate_result" /\ ret.err = "" /\ ret.branch = "ovr"
  /\ Cardinality(Range(attrs[ret.obj].y_test)) = 3
  /\ ret.val.roc_auc_score[1] # ret.val.roc_auc_score[2]

\* C6: a mapping returned by evaluate_result has exactly the keys score_test,
\* score_val, score_train, balanced_accuracy, roc_auc_score and value; the
\* three scores are the model's accuracy on the stored test, validation and
\* train subsets, and value = 1 - score_test (in [0, 1] with score_test).
Accuracy(model, X_s, y_s) ==
  <<Cardinality({k \in DOMAIN X_s : predict(model, X_s)[k] = y_s[k]}), Len(X_s)>>

\* C6: the returned mapping has exactly the six keys, the three scores are the
\* model's accuracy on the matching stored subset, and value = 1 - score_test.
Thm_C6_Metrics ==
  (ret.op = "evaluate_result" /\ ret.err = "") =>
    LET a == attrs[ret.obj]
        model == ret.args.model
        m == ret.val
    IN /\ DOMAIN m = {"score_test", "score_val", "score_train",
                      "balanced_accuracy", "roc_auc_score", "value"}
       /\ m.score_train = Accuracy(model, a.X_train, a.y_train)
       /\ m.score_val = Accuracy(model, a.X_val, a.y_val)
       /\ m.score_test = Accuracy(model, a.X_test, a.y_test)
       /\ RatEq(RatAdd(m.value, m.score_test), <<1, 1>>)
       /\ m.value[2] > 0 /\ 0 <= m.value[1] /\ m.value[1] <= m.value[2]

\* C6 witness: metrics returned with a test score strictly between 0 and 1
\* and different from the validation score.
Wit_C6 ==
  /\ ret.op = "evaluate_result" /\ ret.err = ""
  /\ 0 < ret.val.value[1] /\ ret.val.value[1] < ret.val.value[2]
  /\ ~RatEq(ret.val.score_test, ret.val.score_val)

\* C7 as stated: set_data fails whenever test_size is not inside (0, 1).
OutsideUnit(test_size) == test_size.num <= 0 \/ test_size.num >= test_size.den

C7_Failure ==
  LET ts == params[ret'.obj].test_size
      n == Len(Datasets[ret'.args.data])
  IN ret'.op = "set_data" =>
       /\ (ts.kind = "float" /\ OutsideUnit(ts)) => ret'.err = "InvalidParameterError"
       /\ (ts.kind = "int" /\ ts.num < 1) => ret'.err = "InvalidParameterError"
       /\ (ts.kind = "int" /\ ts.num >= n) => ret'.err = "ValueError"
       /\ ret'.err # "" => (attrs' = attrs /\ prep' = prep)

C8_Frame ==
  ret'.op = "evaluate_result" =>
    /\ attrs' = attrs
    /\ prep' = prep
    /\ \A o \in Objs : DOMAIN attrs'[o] \subseteq AttrNames
    /\ Range(ret'.calls) \subseteq {"score", "predict", "predict_proba"}

\* C8: an evaluate_result step changes no stored subset, no preprocessor and
\* adds no attribute, and calls only score, predict and predict_proba.
Thm_C8_PureRead == [][C8_Frame]_vars

\* C8 witness: a successful evaluation of the baseline on stored subsets.
Wit_C8 ==
  /\ ret.op = "evaluate_result" /\ ret.err = "" /\ Stored(ret.obj)
  /\ ret.args.model.kind = "dummy"
  /\ Len(ret.calls) = 5

\* C9 as stated: with a single class in the stored y_test, evaluate_result
\* raises and returns no metrics.
Cex_C9_OneClassRaises ==
  (/\ ret.op = "evaluate_result" /\ Stored(ret.obj)
   /\ Cardinality(Range(attrs[ret.obj].y_test)) = 1)
  => (ret.err # "" /\ ret.val = None)

\* C10 as stated: the preprocessor get_objective returns is the object passed
\* to set_data, in the state it had when it was passed.
Cex_C10_PreprocessorUntouched ==
  (ret.op = "get_objective" /\ ret.err = "") =>
    /\ ret.val.preprocessor = passed[ret.obj].preprocessor
    /\ prep[ret.val.preprocessor] = passed[ret.obj].state

====
